---- MODULE Spec2Model ----
(***************************************************************************)
(* Model of dashboard.py: a Streamlit script that loads a JSON analysis    *)
(* report and renders one of six views.  Every user interaction re-runs    *)
(* the whole script top to bottom (load, extract, sidebar, active view).   *)
(*                                                                         *)
(* JSON values are modelled as follows.                                    *)
(*   - an object with dynamic keys (a Python dict iterated in insertion    *)
(*     order) is a sequence of [key |-> k, val |-> v];                     *)
(*   - an object with known keys is a record whose fields are optional:    *)
(*     an optional value is <<>> (key absent) or <<v>> (key present);      *)
(*   - practice names are spelled out as sequences of characters, because  *)
(*     the code transforms them character by character (replace, title).   *)
(* What is put on the page is the sequence of elements the st.* calls      *)
(* produce, in call order: [kind, text, rows].                             *)
(***************************************************************************)
EXTENDS Integers, Sequences, FiniteSets, TLC

\* ------------------------------------------------------------ bounds
MaxItems    == 2   \* longest non_compliant list of the varied practice
MaxTerms    == 3   \* most terms in terminology_analysis.terms
MaxRecs     == 3   \* longest recommendations list
MaxSections == 2   \* longest section_lengths list

\* ------------------------------------------------------------ helpers
Absent == <<>>
Some(v) == <<v>>

\* dict.get(key, default) on an optional field
Get(o, default) == IF Len(o) = 0 THEN default ELSE o[1]

Range(s) == {s[i] : i \in 1..Len(s)}

RECURSIVE SeqsUpTo(_, _)
SeqsUpTo(S, n) ==
    IF n = 0 THEN {<<>>}
    ELSE LET shorter == SeqsUpTo(S, n - 1)
         IN shorter \cup {Append(s, x) : s \in {t \in shorter : Len(t) = n - 1}, x \in S}

RECURSIVE SumSeq(_)
SumSeq(s) == IF s = <<>> THEN 0 ELSE Head(s) + SumSeq(Tail(s))

\* sep.join(parts)
RECURSIVE Join(_, _)
Join(sep, parts) ==
    IF Len(parts) = 0 THEN ""
    ELSE IF Len(parts) = 1 THEN parts[1]
    ELSE parts[1] \o sep \o Join(sep, Tail(parts))

\* a string spelled as characters, written back as a string
RECURSIVE Str(_)
Str(cs) == IF Len(cs) = 0 THEN "" ELSE cs[1] \o Str(Tail(cs))

BoolStr(b) == IF b THEN "true" ELSE "false"

\* one displayed element
El(kind, text, rows) == [kind |-> kind, text |-> text, rows |-> rows]

\* Python's None, where a string is expected
None == "<None>"

\* ------------------------------------------------------------ str methods
LowerCase == <<"a", "b", "h", "s">>
UpperCase == <<"A", "B", "H", "S">>

IsCased(c) == c \in Range(LowerCase) \cup Range(UpperCase)

ToUpper(c) ==
    IF c \in Range(LowerCase)
    THEN UpperCase[CHOOSE i \in 1..Len(LowerCase) : LowerCase[i] = c] ELSE c

ToLower(c) ==
    IF c \in Range(UpperCase)
    THEN LowerCase[CHOOSE i \in 1..Len(UpperCase) : UpperCase[i] = c] ELSE c

\* str.replace(old, new) for single characters
Replace(cs, old, new) == [i \in 1..Len(cs) |-> IF cs[i] = old THEN new ELSE cs[i]]

\* str.title(): a cased character is upper-cased when it follows an uncased
\* one (or starts the string) and lower-cased otherwise
RECURSIVE TitleFrom(_, _)
TitleFrom(cs, prevCased) ==
    IF Len(cs) = 0 THEN <<>>
    ELSE LET c == Head(cs)
         IN IF IsCased(c)
            THEN <<IF prevCased THEN ToLower(c) ELSE ToUpper(c)>> \o TitleFrom(Tail(cs), TRUE)
            ELSE <<c>> \o TitleFrom(Tail(cs), FALSE)

Title(cs) == TitleFrom(cs, FALSE)

\* practice.replace('_', ' ').title()
PracticeName(practice) == Str(Title(Replace(practice, "_", " ")))

\* f"{s / n:.0f}": the quotient rounded to the nearest integer, ties to even
FormatAvg(s, n) ==
    LET q == s \div n
        r == s % n
    IN ToString(IF 2 * r < n THEN q
                ELSE IF 2 * r > n THEN q + 1
                ELSE IF q % 2 = 0 THEN q ELSE q + 1)

\* ------------------------------------------------------------ report defaults
EmptyDocData ==
    [headings |-> Absent, section_lengths |-> Absent, lists |-> Absent,
     tables |-> Absent, faqs |-> Absent, metadata |-> Absent]

EmptyTermAnalysis ==
    [terms |-> Absent, glossary |-> Absent, synonym_map |-> Absent, inconsistencies |-> Absent]

EmptyRedundancy ==
    [overlaps |-> Absent, redundant_content |-> Absent, missing_information |-> Absent]

EmptyHeadings == [H1 |-> Absent, H2 |-> Absent]

EmptyDetails == [compliant |-> Absent, non_compliant |-> Absent]

\* the JSON object {}
EmptyObject ==
    [document_structure |-> Absent, terminology_analysis |-> Absent,
     best_practices_compliance |-> Absent, redundancy_and_gaps |-> Absent,
     recommendations |-> Absent, summary |-> Absent]

Keys(dict) == [i \in 1..Len(dict) |-> dict[i].key]

\* dict[key], for a key of the dict
Lookup(dict, k) == dict[CHOOSE i \in 1..Len(dict) : dict[i].key = k].val

\* lines 19-27: the sections of the loaded object, with their defaults
Sections(data) ==
    [doc_structure   |-> Get(data.document_structure, <<>>),
     term_analysis   |-> Get(data.terminology_analysis, EmptyTermAnalysis),
     compliance      |-> Get(data.best_practices_compliance, <<>>),
     redundancy      |-> Get(data.redundancy_and_gaps, EmptyRedundancy),
     recommendations |-> Get(data.recommendations, <<>>),
     summary         |-> Get(data.summary, "No summary provided."),
     doc_names       |-> Keys(Get(data.document_structure, <<>>))]

\* ------------------------------------------------------------ widgets
Pages ==
    <<"Overview", "Document Explorer", "Terminology Hub", "Compliance Dashboard",
      "Redundancy & Gaps", "Recommendations">>

\* st.sidebar.radio: the user's choice, or the first option when the widget is new
radio(options, choice) == IF choice \in Range(options) THEN choice ELSE options[1]

selectbox_placeholder(options, choice) == IF choice \in Range(options) THEN choice ELSE None

\* st.selectbox(label, options): the user's choice; a widget that was not on
\* the page in the previous run starts at the first option (index 0), and
\* returns None when there are no options
selectbox(options, choice) ==
    IF choice \in Range(options) THEN choice
    ELSE IF Len(options) = 0 THEN None ELSE options[1]

Metric(label, value) == El("metric", label, <<<<value>>>>)

\* lines 30-41
Sidebar ==
    << El("sidebar.title", "Navigation", <<>>),
       El("sidebar.radio", "Go to", <<Pages>>),
       El("sidebar.markdown", "---", <<>>),
       El("sidebar.info", "This dashboard visualizes the analysis of your documentation.", <<>>) >>

\* ------------------------------------------------------------ Overview
\* lines 45-62
Overview(r) ==
    << El("title", "Documentation Analysis Overview", <<>>),
       El("markdown", "### Summary", <<>>),
       El("write", r.summary, <<>>),
       El("markdown", "### Key Statistics", <<>>),
       Metric("Documents Analyzed", ToString(Len(r.doc_names))),
       Metric("Unique Terms Tracked", ToString(Len(Get(r.term_analysis.terms, <<>>)))),
       Metric("Terminology Inconsistencies",
              ToString(Len(Get(r.term_analysis.inconsistencies, <<>>)))),
       Metric("Compliance Areas Checked", ToString(Len(r.compliance))),
       Metric("Recommendations Made", ToString(Len(r.recommendations))) >>
\* ------------------------------------------------------------ Document Explorer
\* lines 101-102: index of the first mapping entry whose file is the document
\* (0 when there is none); entries that are not mappings are skipped
FirstMatch(items, doc) ==
    LET hits == {i \in 1..Len(items) : items[i].isdict /\ items[i].file = Some(doc)}
    IN IF hits = {} THEN 0 ELSE CHOOSE i \in hits : \A j \in hits : i <= j

\* lines 95-105: is_compliant after the two checks
is_compliant(details, doc) ==
    IF FirstMatch(Get(details.non_compliant, <<>>), doc) # 0 THEN FALSE
    ELSE doc \in Range(Get(details.compliant, <<>>))

\* lines 96-104: reason after the two checks
reason(details, doc) ==
    LET items == Get(details.non_compliant, <<>>)
        m == FirstMatch(items, doc)
    IN IF m # 0 THEN Get(items[m].reason, "No specific reason provided.")
       ELSE "Not explicitly listed as non-compliant"

\* lines 93-108: the rows collected over the practices, in key order
RECURSIVE compliance_issues(_, _)
compliance_issues(compliance, doc) ==
    IF Len(compliance) = 0 THEN <<>>
    ELSE LET practice == compliance[1].key
             details == compliance[1].val
             rest == compliance_issues(Tail(compliance), doc)
         IN IF ~is_compliant(details, doc)
            THEN <<<<PracticeName(practice), reason(details, doc)>>>> \o rest
            ELSE rest

\* lines 119-122
RECURSIVE found_terms(_, _)
found_terms(terms, doc) ==
    IF Len(terms) = 0 THEN <<>>
    ELSE LET rest == found_terms(Tail(terms), doc)
         IN IF doc \in Range(Get(terms[1].val.documents, <<>>))
            THEN <<terms[1].key>> \o rest ELSE rest

\* line 78, when the divisor is not zero
avg_len(doc_data) ==
    FormatAvg(SumSeq(Get(doc_data.section_lengths, <<0>>)),
              Len(Get(doc_data.section_lengths, <<1>>)))

\* line 78 divides by len(...): an empty list that is present raises
RaisesZeroDivision(doc_data) == Len(Get(doc_data.section_lengths, <<1>>)) = 0

\* lines 72-77 (the backquotes of the markdown are written as ')
ExplorerStructure(selected_doc, doc_data) ==
    << El("markdown", "### Details for: '" \o selected_doc \o "'", <<>>),
       El("subheader", "Structure", <<>>),
       Metric("H1 Headings", ToString(Get(Get(doc_data.headings, EmptyHeadings).H1, 0))),
       Metric("H2 Headings", ToString(Get(Get(doc_data.headings, EmptyHeadings).H2, 0))),
       Metric("Sections", ToString(Len(Get(doc_data.section_lengths, <<>>)))) >>

\* lines 81-88
ExplorerFeatures(doc_data) ==
    << El("write", "**Features:**", <<>>),
       El("json", "",
          << <<"Lists Present", BoolStr(Get(doc_data.lists, FALSE))>>,
             <<"Tables Present", BoolStr(Get(doc_data.tables, FALSE))>>,
             <<"FAQs Present", BoolStr(Get(doc_data.faqs, FALSE))>>,
             <<"Metadata Present", BoolStr(Get(doc_data.metadata, FALSE))>> >>) >>

\* lines 92-115
ExplorerCompliance(r, selected_doc) ==
    LET issues == compliance_issues(r.compliance, selected_doc)
    IN <<El("subheader", "Compliance Status", <<>>)>> \o
       (IF Len(issues) > 0
        THEN << El("warning", "This document has compliance issues:", <<>>),
                El("dataframe", "Practice,Reason", issues) >>
        ELSE << El("success",
                   "This document appears compliant with all checked best practices.", <<>>) >>)

\* lines 118-126
ExplorerTerms(r, selected_doc) ==
    LET found == found_terms(Get(r.term_analysis.terms, <<>>), selected_doc)
    IN <<El("subheader", "Relevant Terms", <<>>)>> \o
       (IF Len(found) > 0
        THEN <<El("write", Join(", ", found), <<>>)>>
        ELSE <<El("write", "No specific tracked terms were listed for this document.", <<>>)>>)

\* lines 64-126; an uncaught exception ends the run, and Streamlit shows it
\* after the elements already on the page
DocumentExplorer(r, selected_doc) ==
    LET head == << El("title", "Document Explorer", <<>>),
                   El("selectbox", "Select a Document", <<r.doc_names>>) >>
    IN IF selected_doc # None /\ selected_doc \in Range(r.doc_names)
       THEN LET doc_data == Lookup(r.doc_structure, selected_doc)
            IN IF RaisesZeroDivision(doc_data)
               THEN head \o ExplorerStructure(selected_doc, doc_data)
                         \o <<El("exception", "ZeroDivisionError: division by zero", <<>>)>>
               ELSE head \o ExplorerStructure(selected_doc, doc_data)
                         \o <<Metric("Avg Section Length (Tokens)", avg_len(doc_data))>>
                         \o ExplorerFeatures(doc_data)
                         \o ExplorerCompliance(r, selected_doc)
                         \o ExplorerTerms(r, selected_doc)
       ELSE head
\* ------------------------------------------------------------ Terminology Hub
\* line 153
freq_data(terms_data) ==
    [i \in 1..Len(terms_data) |-> <<terms_data[i].key, Get(terms_data[i].val.frequency, 0)>>]

PosIn(seq, x) == CHOOSE i \in 1..Len(seq) : seq[i] = x

\* the order an argsort of the Frequency column, descending, puts the row
\* indices in: higher frequency first; among equal frequencies the order is
\* the one the sorting algorithm happens to produce, given by tie
RECURSIVE ArgSortDesc(_, _, _)
ArgSortDesc(rows, tie, left) ==
    IF left = {} THEN <<>>
    ELSE LET first == CHOOSE i \in left : \A j \in left \ {i} :
                          \/ rows[i][2] > rows[j][2]
                          \/ rows[i][2] = rows[j][2] /\ PosIn(tie, i) < PosIn(tie, j)
         IN <<first>> \o ArgSortDesc(rows, tie, left \ {first})

\* line 154: DataFrame.sort_values(by='Frequency', ascending=False) with the
\* default kind='quicksort', which is not a stable sort
sort_values(rows, tie) ==
    LET order == ArgSortDesc(rows, tie, 1..Len(rows))
    IN [k \in 1..Len(rows) |-> rows[order[k]]]

\* lines 132-138
HubGlossary(ta) ==
    LET glossary == Get(ta.glossary, <<>>)
    IN <<El("subheader", "Glossary", <<>>)>> \o
       (IF Len(glossary) > 0
        THEN <<El("dataframe", "Term,Definition",
                  [i \in 1..Len(glossary) |-> <<glossary[i].key, glossary[i].val>>])>>
        ELSE <<El("write", "No glossary provided.", <<>>)>>)

\* lines 140-148
HubSynonyms(ta) ==
    LET synonyms == Get(ta.synonym_map, <<>>)
    IN <<El("subheader", "Synonym Map", <<>>)>> \o
       (IF Len(synonyms) > 0
        THEN <<El("dataframe", "Term,Synonyms",
                  [i \in 1..Len(synonyms) |->
                      <<synonyms[i].key, Join(", ", synonyms[i].val)>>])>>
        ELSE <<El("write", "No synonym map provided.", <<>>)>>)

\* lines 150-159
HubFrequency(ta, tie) ==
    LET terms_data == Get(ta.terms, <<>>)
    IN <<El("subheader", "Term Frequency", <<>>)>> \o
       (IF Len(terms_data) > 0
        THEN <<El("dataframe", "Term,Frequency", sort_values(freq_data(terms_data), tie))>>
        ELSE <<El("write", "No term frequency data provided.", <<>>)>>)

\* lines 161-168
HubInconsistencies(ta) ==
    LET inconsistencies == Get(ta.inconsistencies, <<>>)
    IN <<El("subheader", "Inconsistencies", <<>>)>> \o
       (IF Len(inconsistencies) > 0
        THEN << El("warning", "The following terminology inconsistencies were noted:", <<>>),
                El("dataframe", "term,details",
                   [i \in 1..Len(inconsistencies) |->
                       <<inconsistencies[i].term, inconsistencies[i].details>>]) >>
        ELSE <<El("success", "No terminology inconsistencies listed.", <<>>)>>)

\* lines 129-168
TerminologyHub(r, tie) ==
    <<El("title", "Terminology Hub", <<>>)>>
        \o HubGlossary(r.term_analysis) \o HubSynonyms(r.term_analysis)
        \o HubFrequency(r.term_analysis, tie) \o HubInconsistencies(r.term_analysis)

\* ------------------------------------------------------------ Compliance Dashboard
\* lines 196-199: the table row of one non_compliant entry
non_compliant_row(item) ==
    IF item.isdict THEN <<Get(item.file, None), Get(item.reason, None)>>
    ELSE <<item.value, "N/A">>

\* lines 180-187 (the html div is reduced to its joined content)
DashboardCompliant(details) ==
    LET compliant_docs == Get(details.compliant, <<>>)
    IN <<El("markdown", "**Compliant Documents:**", <<>>)>> \o
       (IF Len(compliant_docs) > 0
        THEN << El("write", "'" \o ToString(Len(compliant_docs)) \o "' document(s):", <<>>),
                El("markdown", Join("<br>", compliant_docs), <<>>) >>
        ELSE <<El("info", "No documents explicitly listed as compliant.", <<>>)>>)

\* lines 189-204
DashboardNonCompliant(details) ==
    LET non_compliant_info == Get(details.non_compliant, <<>>)
    IN <<El("markdown", "**Non-Compliant Documents:**", <<>>)>> \o
       (IF Len(non_compliant_info) > 0
        THEN << El("write", "'" \o ToString(Len(non_compliant_info)) \o "' document(s):", <<>>),
                El("dataframe", "Document,Reason",
                   [i \in 1..Len(non_compliant_info) |->
                       non_compliant_row(non_compliant_info[i])]) >>
        ELSE <<El("info", "No documents explicitly listed as non-compliant.", <<>>)>>)

\* lines 177-204
RECURSIVE DashboardPractices(_)
DashboardPractices(compliance) ==
    IF Len(compliance) = 0 THEN <<>>
    ELSE <<El("expander", "**" \o PracticeName(compliance[1].key) \o "**", <<>>)>>
            \o DashboardCompliant(compliance[1].val)
            \o DashboardNonCompliant(compliance[1].val)
            \o DashboardPractices(Tail(compliance))

ComplianceDashboard_unguarded(r) ==
    <<El("title", "Best Practices Compliance Dashboard", <<>>)>> \o DashboardPractices(r.compliance)

\* lines 171-204
ComplianceDashboard(r) ==
    <<El("title", "Best Practices Compliance Dashboard", <<>>)>> \o
    (IF Len(r.compliance) = 0
     THEN <<El("warning", "No compliance data available.", <<>>)>>
     ELSE DashboardPractices(r.compliance))

\* ------------------------------------------------------------ Redundancy & Gaps
\* lines 213-214: the frame built from the overlaps, its documents column joined
df_overlaps(overlaps) ==
    [i \in 1..Len(overlaps) |-> <<overlaps[i].topic, Join(", ", overlaps[i].documents)>>]

Bullets(items) == [i \in 1..Len(items) |-> El("markdown", "- " \o items[i], <<>>)]

\* lines 207-235
RedundancyAndGaps(r) ==
    LET overlaps == Get(r.redundancy.overlaps, <<>>)
        redundant_content == Get(r.redundancy.redundant_content, <<>>)
        missing_info == Get(r.redundancy.missing_information, <<>>)
    IN << El("title", "Redundancy Analysis and Information Gaps", <<>>),
          El("subheader", "Overlapping Topics", <<>>) >>
       \o (IF Len(overlaps) > 0
           THEN <<El("dataframe", "topic,documents", df_overlaps(overlaps))>>
           ELSE <<El("info", "No specific topic overlaps were identified.", <<>>)>>)
       \o <<El("subheader", "Examples of Redundant Content", <<>>)>>
       \o (IF Len(redundant_content) > 0
           THEN <<El("warning", "The following potential redundancies were noted:", <<>>)>>
                \o Bullets(redundant_content)
           ELSE <<El("info", "No specific examples of redundant content were provided.", <<>>)>>)
       \o <<El("subheader", "Identified Information Gaps", <<>>)>>
       \o (IF Len(missing_info) > 0
           THEN <<El("warning", "The following general information gaps were identified:", <<>>)>>
                \o Bullets(missing_info)
           ELSE <<El("info", "No specific information gaps were listed.", <<>>)>>)

\* ------------------------------------------------------------ Recommendations
numbered_from_zero(i, rec) == ToString(i) \o ". " \o rec

\* line 244: f"{i+1}. {rec}", i the 0-based index of enumerate
numbered(i, rec) == ToString(i + 1) \o ". " \o rec

\* lines 238-246
RecommendationsPage(r) ==
    <<El("title", "Recommendations for Improvement", <<>>)>> \o
    (IF Len(r.recommendations) > 0
     THEN <<El("markdown", "Based on the analysis, the following actions are recommended:", <<>>)>>
          \o [k \in 1..Len(r.recommendations) |->
                 El("markdown", numbered(k - 1, r.recommendations[k]), <<>>)]
     ELSE <<El("info", "No specific recommendations were provided in the data.", <<>>)>>)
\* ------------------------------------------------------------ one script run
View(r, page, selected_doc, tie) ==
    CASE page = "Overview"             -> Overview(r)
      [] page = "Document Explorer"    -> DocumentExplorer(r, selected_doc)
      [] page = "Terminology Hub"      -> TerminologyHub(r, tie)
      [] page = "Compliance Dashboard" -> ComplianceDashboard(r)
      [] page = "Redundancy & Gaps"    -> RedundancyAndGaps(r)
      [] page = "Recommendations"      -> RecommendationsPage(r)

load_ignoring_errors(f) == [ok |-> TRUE, data |-> f.obj, error |-> ""]

\* lines 8-16: the parsed object, or the error shown before st.stop()
load(f) ==
    CASE f.kind = "missing" ->
            [ok |-> FALSE, data |-> EmptyObject,
             error |-> "Error: cross_document_analysis_data.json.json not found. Please ensure the JSON data is saved in this file."]
      [] f.kind = "invalid" ->
            [ok |-> FALSE, data |-> EmptyObject,
             error |-> "Error: Could not decode cross_document_analysis_data.json.json. Please ensure it's valid JSON."]
      [] f.kind = "json" -> [ok |-> TRUE, data |-> f.obj, error |-> ""]

overlaps_joined_in_place(overlaps) ==
    [i \in 1..Len(overlaps) |->
        [topic |-> overlaps[i].topic, documents |-> <<Join(", ", overlaps[i].documents)>>]]

\* lines 213-214: what the report's overlaps hold after the table is built;
\* pd.DataFrame(overlaps) copies the records, the join is assigned to the frame
overlaps_after_render(overlaps) == overlaps

\* the sections as the run leaves them
SectionsAfter(r, page) ==
    IF page = "Redundancy & Gaps" /\ Len(r.redundancy.overlaps) > 0
    THEN [r EXCEPT !.redundancy.overlaps = Some(overlaps_after_render(r.redundancy.overlaps[1]))]
    ELSE r

\* ------------------------------------------------------------ input files
DocNames == <<"a.md", "b.md">>
TermKeys == <<"api", "sdk", "cli", "ui", "ux">>
SectionLens == {0, 1, 2, 5}
Frequencies == {Absent, Some(1), Some(2)}
RecTexts == {"Add a glossary", "Merge doc A and B"}

\* practice names; the second and third get the same display name as the first
PracticeKeys == << <<"h", "_", "s">>, <<"h", " ", "s">>, <<"H", "_", "S">>, <<"a", "B">> >>

DictItem(f, why) == [isdict |-> TRUE, file |-> f, reason |-> why, value |-> ""]
BareItem(v) == [isdict |-> FALSE, file |-> Absent, reason |-> Absent, value |-> v]

Items ==
    { DictItem(Some("a.md"), Some("No H1")), DictItem(Some("a.md"), Some("Too long")),
      DictItem(Some("a.md"), Absent), DictItem(Some("b.md"), Some("No H1")),
      DictItem(Absent, Some("No H1")), BareItem("a.md") }

Compliants == {Absent, Some(<<>>), Some(<<"a.md">>), Some(<<"b.md", "a.md">>)}

VariedDetails ==
    { [compliant |-> c, non_compliant |-> n] :
        c \in Compliants, n \in {Absent} \cup {Some(s) : s \in SeqsUpTo(Items, MaxItems)} }

OtherPractices ==
    { <<>>,
      <<[key |-> PracticeKeys[2],
         val |-> [compliant |-> Absent,
                  non_compliant |-> Some(<<DictItem(Some("a.md"), Some("Skipped level"))>>)]]>>,
      <<[key |-> PracticeKeys[3],
         val |-> [compliant |-> Some(<<"a.md", "b.md">>), non_compliant |-> Some(<<>>)]]>>,
      <<[key |-> PracticeKeys[4],
         val |-> [compliant |-> Some(<<"b.md">>),
                  non_compliant |-> Some(<<BareItem("b.md")>>)]]>> }

DocB ==
    [headings |-> Some([H1 |-> Some(1), H2 |-> Absent]), section_lengths |-> Some(<<3, 4>>),
     lists |-> Some(TRUE), tables |-> Absent, faqs |-> Some(FALSE), metadata |-> Absent]

SampleDocs ==
    << [key |-> "a.md",
        val |-> [headings |-> Some([H1 |-> Some(1), H2 |-> Some(2)]),
                 section_lengths |-> Some(<<2, 5>>), lists |-> Some(TRUE),
                 tables |-> Some(FALSE), faqs |-> Absent, metadata |-> Some(TRUE)]],
       [key |-> "b.md", val |-> DocB] >>

SampleTerms ==
    [terms |-> Some(<<[key |-> "api",
                       val |-> [frequency |-> Some(2), documents |-> Some(<<"a.md">>)]]>>),
     glossary |-> Some(<<[key |-> "api", val |-> "Application programming interface"]>>),
     synonym_map |-> Some(<<[key |-> "login", val |-> <<"sign in", "authenticate">>]>>),
     inconsistencies |-> Some(<<[term |-> "api", details |-> "API vs api"]>>)]

SampleRedundancy ==
    [overlaps |-> Some(<<[topic |-> "setup", documents |-> <<"a.md", "b.md">>]>>),
     redundant_content |-> Some(<<"Install steps repeated">>),
     missing_information |-> Some(<<"No changelog">>)]

SampleObject ==
    [document_structure |-> Some(SampleDocs),
     terminology_analysis |-> Some(SampleTerms),
     best_practices_compliance |->
        Some(<<[key |-> PracticeKeys[1],
                val |-> [compliant |-> Some(<<"b.md">>),
                         non_compliant |-> Some(<<DictItem(Some("a.md"), Some("No H1")),
                                                  BareItem("b.md")>>)]]>>),
     redundancy_and_gaps |-> Some(SampleRedundancy),
     recommendations |-> Some(<<"Add a glossary">>),
     summary |-> Some("Two documents analysed.")]

\* every optional key omitted, at the top level or one level down
MinimalObjects ==
    { EmptyObject,
      [EmptyObject EXCEPT !.document_structure = Some(<<>>),
                          !.terminology_analysis = Some(EmptyTermAnalysis),
                          !.best_practices_compliance = Some(<<>>),
                          !.redundancy_and_gaps = Some(EmptyRedundancy),
                          !.recommendations = Some(<<>>)],
      [SampleObject EXCEPT !.document_structure =
            Some(<<[key |-> "a.md", val |-> EmptyDocData], [key |-> "b.md", val |-> DocB]>>),
          !.best_practices_compliance =
            Some(<<[key |-> PracticeKeys[1], val |-> EmptyDetails]>>)] }

VariedDocs ==
    { [headings |-> h, section_lengths |-> sl, lists |-> Absent, tables |-> Some(TRUE),
       faqs |-> Absent, metadata |-> Some(FALSE)] :
        h \in {Absent, Some(EmptyHeadings), Some([H1 |-> Some(3), H2 |-> Absent])},
        sl \in {Absent} \cup {Some(s) : s \in SeqsUpTo(SectionLens, MaxSections)} }

DocObjects ==
    { [SampleObject EXCEPT !.document_structure = Some(<<[key |-> "a.md", val |-> d]>> \o more)] :
        d \in VariedDocs, more \in {<<>>, <<[key |-> "b.md", val |-> DocB]>>} }

ComplianceObjects ==
    { [SampleObject EXCEPT !.best_practices_compliance =
            Some(<<[key |-> PracticeKeys[1], val |-> d]>> \o more)] :
        d \in VariedDetails, more \in OtherPractices }

TermDicts ==
    UNION { { [i \in 1..n |->
                 [key |-> TermKeys[i],
                  val |-> [frequency |-> fs[i],
                           documents |-> IF i % 2 = 1 THEN Some(<<"a.md">>) ELSE Absent]]] :
              fs \in [1..n -> Frequencies] } : n \in 0..MaxTerms }

TermObjects ==
    { [SampleObject EXCEPT !.terminology_analysis = Some([SampleTerms EXCEPT !.terms = Some(t)])] :
        t \in TermDicts }

RecObjects ==
    { [SampleObject EXCEPT !.recommendations = Some(r)] : r \in SeqsUpTo(RecTexts, MaxRecs) }

Objects ==
    {SampleObject} \cup MinimalObjects \cup DocObjects \cup ComplianceObjects
        \cup TermObjects \cup RecObjects

Files ==
    { [kind |-> "missing", obj |-> EmptyObject], [kind |-> "invalid", obj |-> EmptyObject] }
        \cup { [kind |-> "json", obj |-> o] : o \in Objects }

Perms(n) == { p \in [1..n -> 1..n] : \A i, j \in 1..n : p[i] = p[j] => i = j }

\* ------------------------------------------------------------ state
VARIABLES
    file,          \* the content of data/cross_document_analysis_data.json
    quicksort,     \* the order this build's sort leaves equal frequencies in
    pc,            \* "start": no run yet; "running": last run reached its end
                   \* or an exception; "stopped": last run ended in st.stop()
    page,          \* value of the sidebar radio
    selected_doc,  \* value of the Document Explorer selectbox (None: no widget)
    data,          \* the module-level data
    report,        \* the module-level sections of lines 19-27
    screen         \* the elements on the page, in call order

vars == <<file, quicksort, pc, page, selected_doc, data, report, screen>>

Init ==
    /\ file \in Files
    /\ quicksort \in Perms(Len(Get(Sections(file.obj).term_analysis.terms, <<>>)))
    /\ pc = "start"
    /\ page = None
    /\ selected_doc = None
    /\ data = EmptyObject
    /\ report = Sections(EmptyObject)
    /\ screen = <<>>

\* the script, top to bottom, with the widgets answering pageChoice and docChoice
Run(pageChoice, docChoice) ==
    LET l == load(file)
        r == Sections(l.data)
        p == radio(Pages, pageChoice)
        d == IF p = "Document Explorer" THEN selectbox(r.doc_names, docChoice) ELSE None
    IN /\ UNCHANGED <<file, quicksort>>
       /\ IF l.ok
          THEN /\ pc' = "running"
               /\ data' = l.data
               /\ page' = p
               /\ selected_doc' = d
               /\ screen' = Sidebar \o View(r, p, d, quicksort)
               /\ report' = SectionsAfter(r, p)
          ELSE /\ pc' = "stopped"
               /\ screen' = <<El("error", l.error, <<>>)>>
               /\ UNCHANGED <<data, report, page, selected_doc>>

\* the session opens: first run, no widget has a value yet
Start ==
    /\ pc = "start"
    /\ Run(None, None)

\* the user picks another page in the sidebar; a selectbox that was not on
\* the previous page is a new widget
SelectPage(p) ==
    /\ pc = "running"
    /\ p # page
    /\ Run(p, None)

\* the user picks another document in the Document Explorer
SelectDoc(d) ==
    /\ pc = "running"
    /\ page = "Document Explorer"
    /\ d \in Range(report.doc_names)
    /\ d # selected_doc
    /\ Run(page, d)

\* the user asks for a rerun (the widgets keep their values)
Rerun ==
    /\ pc \in {"running", "stopped"}
    /\ Run(page, selected_doc)

Next ==
    \/ Start
    \/ \E p \in Range(Pages) : SelectPage(p)
    \/ \E d \in Range(DocNames) : SelectDoc(d)
    \/ Rerun

Spec == Init /\ [][Next]_vars
\* ------------------------------------------------------------ reading the page
Main == SubSeq(screen, Len(Sidebar) + 1, Len(screen))

HasKind(kind) == \E i \in 1..Len(screen) : screen[i].kind = kind

HasEl(kind, text) == \E i \in 1..Len(screen) : screen[i].kind = kind /\ screen[i].text = text

\* the rows of the table with these columns (no rows when it is not on the page)
TableRows(columns) ==
    LET at == {i \in 1..Len(screen) : screen[i].kind = "dataframe" /\ screen[i].text = columns}
    IN IF at = {} THEN <<>> ELSE screen[CHOOSE i \in at : TRUE].rows

\* the members of a set of indices, ascending
RECURSIVE Ascending(_)
Ascending(S) ==
    IF S = {} THEN <<>>
    ELSE LET m == CHOOSE i \in S : \A j \in S : i <= j IN <<m>> \o Ascending(S \ {m})

\* the report as the file holds it
SrcCompliance == Get(file.obj.best_practices_compliance, <<>>)
SrcDocs == Get(file.obj.document_structure, <<>>)

EntriesFor(details, d) ==
    LET items == Get(details.non_compliant, <<>>)
    IN {k \in 1..Len(items) : items[k].isdict /\ items[k].file = Some(d)}

ListedCompliant(details, d) == d \in Range(Get(details.compliant, <<>>))

OnExplorer == pc = "running" /\ page = "Document Explorer" /\ selected_doc # None

\* ------------------------------------------------------------ C1
\* C1: when the load fails (file missing or not valid JSON) the run shows one
\* error and stops; neither the navigation nor any view is on the page then,
\* and no later run of the session puts them there.
C1_LoadFailureHalts ==
    /\ [](file.kind # "json" /\ pc # "start" =>
            /\ pc = "stopped"
            /\ Len(screen) = 1 /\ screen[1].kind = "error"
            /\ page = None /\ selected_doc = None)
    /\ [][pc = "stopped" => pc' = "stopped" /\ screen' = screen]_vars

C1_Witness == file.kind = "invalid" /\ pc = "stopped" /\ HasKind("error")
\* ------------------------------------------------------------ C2, C3
\* The issue list on the page against the report in the file.  The list is
\* read as the rows of a set S of practices, in key order, each under the
\* practice's display name; mustHave are practices S has to contain, mustNot
\* practices it may not contain.  A practice with an entry for the document
\* carries the reason of one of its entries for it.
IssueListIs(d, mustHave, mustNot) ==
    LET rows == TableRows("Practice,Reason")
        n == Len(SrcCompliance)
    IN \E S \in SUBSET (1..n) :
          /\ mustHave \subseteq S
          /\ S \cap mustNot = {}
          /\ Len(rows) = Cardinality(S)
          /\ LET order == Ascending(S)
             IN \A k \in 1..Len(rows) :
                   LET details == SrcCompliance[order[k]].val
                       items == Get(details.non_compliant, <<>>)
                   IN /\ rows[k][1] = PracticeName(SrcCompliance[order[k]].key)
                      /\ EntriesFor(details, d) # {} =>
                            \E e \in EntriesFor(details, d) :
                                Len(items[e].reason) = 0 \/ rows[k][2] = items[e].reason[1]

WithEntry(d) ==
    {i \in 1..Len(SrcCompliance) : EntriesFor(SrcCompliance[i].val, d) # {}}

CompliantOnly(d) ==
    {i \in 1..Len(SrcCompliance) :
        ListedCompliant(SrcCompliance[i].val, d) /\ EntriesFor(SrcCompliance[i].val, d) = {}}

InNeither(d) ==
    {i \in 1..Len(SrcCompliance) :
        ~ListedCompliant(SrcCompliance[i].val, d) /\ EntriesFor(SrcCompliance[i].val, d) = {}}

\* C2: for the document on the Document Explorer, a practice that lists it
\* as compliant and has no non_compliant entry for it is not in the issue
\* list, and a practice with a non_compliant entry for it is in the list
\* with that entry's reason.
C2_IssueList == OnExplorer => IssueListIs(selected_doc, WithEntry(selected_doc), CompliantOnly(selected_doc))

\* The same, in the runs that get as far as the compliance section.
C2_IssueListWhenReached ==
    OnExplorer /\ HasEl("subheader", "Compliance Status") =>
        IssueListIs(selected_doc, WithEntry(selected_doc), CompliantOnly(selected_doc))

\* C3: a practice that neither lists the document as compliant nor has a
\* non_compliant entry for it is not in the issue list, and a document in
\* neither list of every practice gets the success message.
C3_AbsentFromBothExcluded ==
    OnExplorer /\ HasEl("subheader", "Compliance Status") =>
        /\ IssueListIs(selected_doc, {}, InNeither(selected_doc))
        /\ InNeither(selected_doc) = 1..Len(SrcCompliance) =>
              HasEl("success", "This document appears compliant with all checked best practices.")

\* What the code does instead: such a practice is always in the list.
C3_AbsentFromBothListed ==
    OnExplorer /\ HasEl("subheader", "Compliance Status") =>
        IssueListIs(selected_doc, InNeither(selected_doc) \cup WithEntry(selected_doc),
                    CompliantOnly(selected_doc))

\* ------------------------------------------------------------ C4
SelectedDocData == Lookup(SrcDocs, selected_doc)

\* C4: for a selected document whose section_lengths is the empty list, or
\* is absent, the average section length shown is 0 and no error is raised.
C4_EmptySectionsAverageZero ==
    OnExplorer /\ Get(SelectedDocData.section_lengths, <<>>) = <<>> =>
        /\ ~HasKind("exception")
        /\ \E i \in 1..Len(screen) : screen[i] = Metric("Avg Section Length (Tokens)", "0")

\* What holds: the absent key gives 0; the empty list raises at line 78.
C4_AbsentKeyAverageZero ==
    OnExplorer =>
        /\ Len(SelectedDocData.section_lengths) = 0 =>
              /\ ~HasKind("exception")
              /\ \E i \in 1..Len(screen) : screen[i] = Metric("Avg Section Length (Tokens)", "0")
        /\ SelectedDocData.section_lengths = Some(<<>>) <=> HasKind("exception")
\* ------------------------------------------------------------ C5
EmptyStateTexts ==
    { "No summary provided.", "No glossary provided.", "No synonym map provided.",
      "No term frequency data provided.", "No terminology inconsistencies listed.",
      "No compliance data available.", "No specific topic overlaps were identified.",
      "No specific examples of redundant content were provided.",
      "No specific information gaps were listed.",
      "No specific recommendations were provided in the data." }

MessageKinds == {"write", "info", "warning", "success"}

MessagesOn(p) ==
    CASE p = "Overview" -> {"No summary provided."}
      [] p = "Document Explorer" -> {}
      [] p = "Terminology Hub" ->
            {"No glossary provided.", "No synonym map provided.",
             "No term frequency data provided.", "No terminology inconsistencies listed."}
      [] p = "Compliance Dashboard" -> {"No compliance data available."}
      [] p = "Redundancy & Gaps" ->
            {"No specific topic overlaps were identified.",
             "No specific examples of redundant content were provided.",
             "No specific information gaps were listed."}
      [] p = "Recommendations" -> {"No specific recommendations were provided in the data."}

\* C5: the object {} loads; every collection of the report is empty; on each
\* of the six views the page holds its headings and its empty-state
\* messages only (all Overview counts 0): no table, no list item, no error.
C5_MinimalReport ==
    file.kind = "json" /\ file.obj = EmptyObject /\ pc # "start" =>
        /\ pc = "running"
        /\ report.doc_structure = <<>> /\ report.doc_names = <<>>
        /\ report.term_analysis = EmptyTermAnalysis
        /\ report.compliance = <<>>
        /\ report.redundancy = EmptyRedundancy
        /\ report.recommendations = <<>>
        /\ \A i \in 1..Len(Main) :
              LET e == Main[i]
              IN /\ e.kind \in MessageKinds \cup {"title", "subheader", "markdown", "metric", "selectbox"}
                 /\ e.kind \in MessageKinds => e.text \in EmptyStateTexts
                 /\ e.kind = "markdown" => e.text \in {"### Summary", "### Key Statistics"}
                 /\ e.kind = "metric" => e.rows = <<<<"0">>>>
                 /\ e.kind = "selectbox" => e.rows = <<<<>>>>
                 /\ e.kind \notin {"metric", "selectbox"} => e.rows = <<>>
        /\ {Main[i].text : i \in {j \in 1..Len(Main) : Main[j].kind \in MessageKinds}}
              = MessagesOn(page)
        /\ selected_doc = None

C5_Witness ==
    /\ file.kind = "json" /\ file.obj = EmptyObject /\ pc = "running"
    /\ page = "Compliance Dashboard"
    /\ HasEl("warning", "No compliance data available.")

\* ------------------------------------------------------------ C6
SrcTerms == Get(Get(file.obj.terminology_analysis, EmptyTermAnalysis).terms, <<>>)

OnHub == pc = "running" /\ page = "Terminology Hub" /\ Len(SrcTerms) > 0

\* the (term, frequency) rows in key order, sorted by a stable descending sort
StableDescending ==
    LET rows == [i \in 1..Len(SrcTerms) |-> <<SrcTerms[i].key, Get(SrcTerms[i].val.frequency, 0)>>]
        order == ArgSortDesc(rows, [i \in 1..Len(rows) |-> i], 1..Len(rows))
    IN [k \in 1..Len(rows) |-> rows[order[k]]]

\* C6: the term-frequency table lists each term once, in non-increasing
\* order of frequency, terms of equal frequency in the order of their keys
\* in the source mapping.
C6_StableDescending == OnHub => TableRows("Term,Frequency") = StableDescending

\* What holds of every build: each term once, frequencies non-increasing.
C6_Descending ==
    OnHub =>
        LET rows == TableRows("Term,Frequency")
        IN /\ Len(rows) = Len(SrcTerms)
           /\ \A i \in 1..Len(SrcTerms) :
                 Cardinality({k \in 1..Len(rows) : rows[k][1] = SrcTerms[i].key}) = 1
           /\ \A k \in 1..Len(rows) :
                 \E i \in 1..Len(SrcTerms) :
                    rows[k] = <<SrcTerms[i].key, Get(SrcTerms[i].val.frequency, 0)>>
           /\ \A k \in 1..(Len(rows) - 1) : rows[k][2] >= rows[k + 1][2]

\* ------------------------------------------------------------ C7
SrcDocNames == [i \in 1..Len(SrcDocs) |-> SrcDocs[i].key]

OnlyPrompt ==
    Main = << El("title", "Document Explorer", <<>>),
              El("selectbox", "Select a Document", <<SrcDocNames>>) >>

\* the sessions on which the steps open to the user are enumerated: the
\* guards of the page change read nothing of the report
NavObjects ==
    MinimalObjects \cup {SampleObject}
        \cup {o \in DocObjects : o.document_structure[1][1].val.section_lengths = Some(<<>>)}

AnyPageNext ==
    pc = "running" /\ file.obj \in NavObjects =>
        \A p \in Range(Pages) \ {page} : ENABLED SelectPage(p)

HasBareEntry ==
    \E i \in 1..Len(SrcCompliance) :
        \E k \in 1..Len(Get(SrcCompliance[i].val.non_compliant, <<>>)) :
            ~SrcCompliance[i].val.non_compliant[1][k].isdict

\* the non_compliant list without the entries that are not mappings
RECURSIVE OnlyMappings(_)
OnlyMappings(items) ==
    IF Len(items) = 0 THEN <<>>
    ELSE (IF items[1].isdict THEN <<items[1]>> ELSE <<>>) \o OnlyMappings(Tail(items))

\* the report with those entries taken out of every practice
WellShaped(r) ==
    [r EXCEPT !.compliance =
        [i \in 1..Len(r.compliance) |->
            [key |-> r.compliance[i].key,
             val |-> [compliant |-> r.compliance[i].val.compliant,
                      non_compliant |->
                         IF Len(r.compliance[i].val.non_compliant) = 0 THEN Absent
                         ELSE Some(OnlyMappings(r.compliance[i].val.non_compliant[1]))]]]]

\* the non-compliant tables of the Compliance Dashboard, in page order
DashboardTables ==
    LET at == {i \in 1..Len(screen) :
                  screen[i].kind = "dataframe" /\ screen[i].text = "Document,Reason"}
        order == Ascending(at)
    IN [k \in 1..Len(order) |-> screen[order[k]].rows]

\* the tables the claim describes: one per practice with entries, a row per
\* entry, a bare value under Document with the reason "N/A"
ExpectedTables ==
    LET with == Ascending({i \in 1..Len(SrcCompliance) :
                              Len(Get(SrcCompliance[i].val.non_compliant, <<>>)) > 0})
    IN [k \in 1..Len(with) |->
          LET items == SrcCompliance[with[k]].val.non_compliant[1]
          IN [j \in 1..Len(items) |->
                IF items[j].isdict
                THEN <<Get(items[j].file, None), Get(items[j].reason, None)>>
                ELSE <<items[j].value, "N/A">>]]

ExplorerSections ==
    /\ HasEl("subheader", "Structure")
    /\ \E i \in 1..Len(screen) :
          screen[i].kind = "metric" /\ screen[i].text = "Avg Section Length (Tokens)"
    /\ HasEl("write", "**Features:**")
    /\ HasEl("subheader", "Compliance Status")
    /\ HasEl("subheader", "Relevant Terms")

BareEntryOnDashboard ==
    pc = "running" /\ page = "Compliance Dashboard" =>
        /\ ~HasKind("exception")
        /\ DashboardTables = ExpectedTables
        /\ Cardinality({i \in 1..Len(screen) : screen[i].kind = "expander"}) = Len(SrcCompliance)

\* C8: with a non_compliant entry that is not a mapping in the report, no
\* page aborts: the Compliance Dashboard has the entry as a row (value,
\* "N/A") among the rows of the other entries, and the Document Explorer
\* has all of its sections for every selectable document, as for the report
\* without that entry.
C8_BareEntryTolerated ==
    HasBareEntry =>
        /\ ~HasKind("exception")
        /\ BareEntryOnDashboard
        /\ OnExplorer =>
              /\ ExplorerSections
              /\ Main = DocumentExplorer(WellShaped(Sections(file.obj)), selected_doc)

\* What holds: the entry itself aborts nothing and changes nothing on the
\* Document Explorer; the page still ends at line 78 for a document whose
\* section_lengths is the empty list.
C8_BareEntryChangesNothing ==
    HasBareEntry =>
        /\ BareEntryOnDashboard
        /\ OnExplorer =>
              /\ Main = DocumentExplorer(WellShaped(Sections(file.obj)), selected_doc)
              /\ ExplorerSections <=> ~HasKind("exception")
              /\ HasKind("exception") <=> SelectedDocData.section_lengths = Some(<<>>)

\* ------------------------------------------------------------ C9
SrcRecommendations == Get(file.obj.recommendations, <<>>)

\* C9: n >= 1 recommendations are rendered as exactly n items, the i-th
\* being the number i, ". " and the i-th recommendation; none are rendered
\* as the empty-state message alone.
C9_NumberedInOrder ==
    pc = "running" /\ page = "Recommendations" =>
        LET n == Len(SrcRecommendations)
        IN IF n = 0
           THEN Main = << El("title", "Recommendations for Improvement", <<>>),
                          El("info", "No specific recommendations were provided in the data.", <<>>) >>
           ELSE /\ Len(Main) = n + 2
                /\ Main[1].kind = "title" /\ Main[2].kind = "markdown"
                /\ Main[2].text = "Based on the analysis, the following actions are recommended:"
                /\ \A i \in 1..n :
                      Main[i + 2] = El("markdown", ToString(i) \o ". " \o SrcRecommendations[i], <<>>)

C9_Witness ==
    /\ pc = "running" /\ page = "Recommendations"
    /\ SrcRecommendations = <<"Add a glossary", "Merge doc A and B">>
    /\ Main[3].text = "1. Add a glossary" /\ Main[4].text = "2. Merge doc A and B"

====
